---- MODULE Spec2Model ----
(***************************************************************************)
(* A model of rasa/nlu/selectors/response_selector.py:                     *)
(*   - ResponseSelector: construction, preprocess_train_data / train,      *)
(*     _full_response, process, _set_message_property, persist, load;      *)
(*   - DIET2DIET: construction (_check_data, _update_metrics_to_log,       *)
(*     _prepare_layers), batch_loss, batch_predict.                        *)
(* Python values are encoded as strings: None is "None", a dictionary key  *)
(* that is not set is "Absent", booleans of the configuration are "True"   *)
(* and "False".  A dictionary is a function on the fixed universe of its   *)
(* possible keys whose value is the absent value where the key is not set. *)
(***************************************************************************)
EXTENDS Naturals, Sequences, FiniteSets, TLC

\* ------------------------------------------------------------------ bounds

\* the largest number of examples of one training set
MaxExamples == 2

\* batch_predict and batch_loss are each called at most this many times
MaxBatches == 3

\* ---------------------------------------------------------------- universe

None == "None"
Absent == "Absent"

\* rasa.nlu.constants.DEFAULT_OPEN_UTTERANCE_TYPE, the key used when no
\* retrieval intent is configured
DEFAULT_OPEN_UTTERANCE_TYPE == "default"

\* the keys a response selector may write under on a message
SelectorKeys == {DEFAULT_OPEN_UTTERANCE_TYPE, "faq", "chitchat"}

\* the keys of the response registry, in the iteration order of the dictionary
RegistryOrder == <<"faq/a", "faq/b", "chitchat/a">>

RegistryKeys == {RegistryOrder[i] : i \in DOMAIN RegistryOrder}

\* a response that is not there (Python None where a response dict is expected)
NoResponse == [text |-> None, buttons |-> None]

\* The responses of the training corpus: "faq/a" and "chitchat/a" carry the
\* same text with different payloads, "faq/b" has two variants.
CorpusResponses ==
  [k \in RegistryKeys |->
     CASE k = "faq/a"      -> << [text |-> "hello", buttons |-> "b1"] >>
       [] k = "faq/b"      -> << [text |-> "bye", buttons |-> None],
                                 [text |-> "ciao", buttons |-> "b3"] >>
       [] k = "chitchat/a" -> << [text |-> "hello", buttons |-> "b2"] >>]

\* A registry holding the keys ks of the corpus; a key that is not set has
\* no responses.
Registry(ks) == [k \in RegistryKeys |-> IF k \in ks THEN CorpusResponses[k] ELSE << >>]

\* The training examples: the response of a retrieval example is the text of
\* the first response of its intent response key; "greet" is an ordinary
\* intent with neither a response key nor a response.
ExampleKinds ==
  { [intent |-> "faq", intent_response_key |-> "faq/a", response |-> "hello"],
    [intent |-> "faq", intent_response_key |-> "faq/b", response |-> "bye"],
    [intent |-> "chitchat", intent_response_key |-> "chitchat/a", response |-> "hello"],
    [intent |-> "greet", intent_response_key |-> None, response |-> None] }

\* what a label or a key of the retrieval intent mapping may be
ResponseIds == {"hello", "bye", "ciao", None}

TrainingSets == UNION { [1..n -> ExampleKinds] : n \in 0..MaxExamples }

\* the registry keys the examples of td need
NeededKeys(td) ==
  { td[i].intent_response_key : i \in DOMAIN td } \ {None}

\* ------------------------------------------------------------------- state

VARIABLES
  caller_config,            \* the component_config argument of __init__, as given
  component_config,         \* self.component_config
  retrieval_intent,         \* self.retrieval_intent
  index_label_id_mapping,   \* self.index_label_id_mapping: index -> label, << >> when unset
  label_data,               \* self._label_data: the labels encoded, << >> when unset
  retrieval_intent_mapping, \* self.retrieval_intent_mapping
  responses,                \* self.responses
  model,                    \* self.model: "None" or "model"
  message,                  \* the message's response selector property: key -> prediction
  training_data,            \* the training data of the pipeline, train's argument
  model_data,               \* what preprocess_train_data returned, if it ran last
  predicted,                \* the label indices process predicted, best first, if it ran last
  op,                       \* the last operation
  raised,                   \* the exception the last operation raised, "none" if none
  meta,                     \* the metadata the last persist returned
  model_dir,                \* the files of the model directory
  data_signature,           \* DIET2DIET.data_signature
  config,                   \* DIET2DIET.config
  debug_log_level,          \* whether the rasa logger is at DEBUG
  metrics_to_log,           \* DIET2DIET.metrics_to_log
  layers,                   \* the layers _prepare_layers has prepared
  diet_state,               \* the position of DIET2DIET's construction
  all_labels_embed,         \* DIET2DIET.all_labels_embed, the cached label embeddings
  create_all_labels_calls,  \* how often _create_all_labels was called
  predict_calls,            \* how often batch_predict was called
  loss_calls,               \* how often batch_loss was called
  metric_updates,           \* per metric, how often update_state was called on it
  losses                    \* the loss terms the last batch_loss added up

selector_vars ==
  << caller_config, component_config, retrieval_intent, index_label_id_mapping,
     label_data, retrieval_intent_mapping, responses, model, message,
     training_data, model_data, predicted, op, raised >>

diet_vars ==
  << data_signature, config, debug_log_level, metrics_to_log, layers, diet_state,
     all_labels_embed, create_all_labels_calls, predict_calls, loss_calls,
     metric_updates, losses >>

persist_vars == << meta, model_dir >>

vars == << selector_vars, persist_vars, diet_vars >>

\* ------------------------------------------------- ResponseSelector.__init__

\* override_defaults: an option the caller does not set takes its default
WithDefaults(cc) ==
  [cc EXCEPT
     !.train_on_text = IF cc.train_on_text = Absent THEN "False" ELSE cc.train_on_text,
     !.intent_response_key =
        IF cc.intent_response_key = Absent THEN None ELSE cc.intent_response_key]

\* the three assignments of __init__ with the one to ENTITY_RECOGNITION left out
ForcedConfigKeepsEntityRecognition(cc) ==
  [cc EXCEPT !.intent_classification = "True", !.bilou_flag = None]

\* "the following properties cannot be adapted for the ResponseSelector"
ForcedConfig(cc) ==
  [cc EXCEPT !.intent_classification = "True",
             !.entity_recognition = "False",
             !.bilou_flag = None]

\* component_config = component_config or {}: no configuration sets nothing
NoConfig ==
  [given |-> FALSE, intent_classification |-> Absent, entity_recognition |-> Absent,
   bilou_flag |-> Absent, train_on_text |-> Absent, intent_response_key |-> Absent]

\* what a caller may set the three reserved options to: nothing, or values
\* other than the ones the selector works with
ReservedOptions ==
  { [intent_classification |-> Absent, entity_recognition |-> Absent, bilou_flag |-> Absent],
    [intent_classification |-> Absent, entity_recognition |-> "True", bilou_flag |-> Absent],
    [intent_classification |-> "False", entity_recognition |-> "True", bilou_flag |-> "True"] }

CallerConfigs ==
  {NoConfig} \cup
  { [given |-> TRUE,
     intent_classification |-> r.intent_classification,
     entity_recognition |-> r.entity_recognition,
     bilou_flag |-> r.bilou_flag,
     train_on_text |-> t,
     intent_response_key |-> k] :
      r \in ReservedOptions, t \in {Absent, "True"},
      k \in {Absent, "", "faq", "chitchat"} }

\* self.component_config after __init__, without the caller's "given" mark
EffectiveConfig(cc) ==
  LET c == WithDefaults(ForcedConfig(cc))
  IN [intent_classification |-> c.intent_classification,
      entity_recognition |-> c.entity_recognition,
      bilou_flag |-> c.bilou_flag,
      train_on_text |-> c.train_on_text,
      intent_response_key |-> c.intent_response_key]

\* _load_selector_params
LoadSelectorParams(cfg) == cfg.intent_response_key

\* retrieval_intent_mapping or {}
EmptyMapping == [r \in ResponseIds |-> Absent]

\* responses or {}
EmptyResponses == Registry({})

\* Python's truth value of a string or None
Truthy(s) == s \notin {None, ""}

TrainOnText(cfg) == cfg.train_on_text = "True"

\* ---------------------------------------------------- preprocess_train_data

Range(f) == { f[x] : x \in DOMAIN f }

Front(s) == SubSeq(s, 1, Len(s) - 1)

\* the filter without the comparison with the example's intent
FilterKeepsAll(examples, ri) == examples

\* training_data.filter_training_examples(lambda ex: retrieval_intent == ex.get(INTENT))
\* when a retrieval intent is configured, all the examples otherwise
FilterExamples(examples, ri) ==
  IF Truthy(ri)
    THEN SelectSeq(examples, LAMBDA ex : ri = ex.intent)
    ELSE examples

\* RESPONSE if TRAIN_ON_TEXT else INTENT_RESPONSE_KEY, read off an example
LabelOf(ex, train_on_text) ==
  IF train_on_text THEN ex.response ELSE ex.intent_response_key

\* _label_id_index_mapping: the distinct labels of the examples (None is no
\* label), each with its index; the indices are 1-based here, position i of
\* the sequence is Python's index i - 1
RECURSIVE DistinctLabels(_, _)
DistinctLabels(examples, train_on_text) ==
  IF examples = << >> THEN << >>
  ELSE LET rest == DistinctLabels(Front(examples), train_on_text)
           l == LabelOf(examples[Len(examples)], train_on_text)
       IN IF l = None \/ l \in Range(rest) THEN rest ELSE Append(rest, l)

LabelIdIndexMapping(examples, train_on_text) ==
  LET ls == DistinctLabels(examples, train_on_text)
  IN [l \in Range(ls) |-> CHOOSE i \in DOMAIN ls : ls[i] = l]

\* _invert_mapping: index -> label
InvertMapping(m) ==
  [i \in 1..Cardinality(DOMAIN m) |-> CHOOSE l \in DOMAIN m : m[l] = i]

\* _create_retrieval_intent_mapping keeping the first example of a response
\* instead of the last
RECURSIVE CreateRetrievalIntentMappingFirstWins(_)
CreateRetrievalIntentMappingFirstWins(examples) ==
  IF examples = << >> THEN EmptyMapping
  ELSE LET ex == examples[1]
       IN [CreateRetrievalIntentMappingFirstWins(Tail(examples))
             EXCEPT ![ex.response] = ex.intent_response_key]

\* _create_retrieval_intent_mapping: one assignment per example, in order
RECURSIVE CreateRetrievalIntentMapping(_)
CreateRetrievalIntentMapping(examples) ==
  IF examples = << >> THEN EmptyMapping
  ELSE LET ex == examples[Len(examples)]
       IN [CreateRetrievalIntentMapping(Front(examples))
             EXCEPT ![ex.response] = ex.intent_response_key]

\* _create_label_data: one encoded row per label of the mapping
CreateLabelData(m) ==
  [i \in 1..Cardinality(DOMAIN m) |->
     [label_id |-> i, features |-> CHOOSE l \in DOMAIN m : m[l] = i]]

\* _create_model_data: one row per example that has a label
RECURSIVE CreateModelData(_, _, _)
CreateModelData(examples, m, train_on_text) ==
  IF examples = << >> THEN << >>
  ELSE LET ex == examples[Len(examples)]
           rest == CreateModelData(Front(examples), m, train_on_text)
           l == LabelOf(ex, train_on_text)
       IN IF l \in DOMAIN m
            THEN Append(rest, [example |-> ex, label_id |-> m[l]])
            ELSE rest

\* RasaModelData(): no rows
EmptyModelData == << >>

\* the label table assigned before the test for no labels
AssignLabelTableAlways(old, m) == InvertMapping(m)

\* lines 321-325: self.index_label_id_mapping is assigned only past the
\* early return
AssignLabelTable(old, m) ==
  IF DOMAIN m = {} THEN old ELSE InvertMapping(m)

\* lines 321-329: so is self._label_data
AssignLabelData(old, m) ==
  IF DOMAIN m = {} THEN old ELSE CreateLabelData(m)

\* lines 321-339: the value returned
ReturnedModelData(examples, m, train_on_text) ==
  IF DOMAIN m = {} THEN EmptyModelData
  ELSE CreateModelData(examples, m, train_on_text)

\* The assignments of preprocess_train_data(training_data), td being the
\* examples and the responses of the training data.
Preprocessed(td) ==
  LET filtered == FilterExamples(td.examples, retrieval_intent)
      tot == TrainOnText(component_config)
      m == LabelIdIndexMapping(filtered, tot)
  IN /\ retrieval_intent_mapping' = CreateRetrievalIntentMapping(filtered)
     /\ responses' = td.responses
     /\ index_label_id_mapping' = AssignLabelTable(index_label_id_mapping, m)
     /\ label_data' = AssignLabelData(label_data, m)
     /\ model_data' = ReturnedModelData(filtered, m, tot)
     /\ raised' = "none"

\* the training data of a pipeline: examples, and a registry that holds the
\* responses of the examples alone or those of the whole corpus
TrainingData ==
  UNION { { [examples |-> ex, responses |-> Registry(ks)] :
              ks \in {NeededKeys(ex), RegistryKeys} } : ex \in TrainingSets }

PreprocessTrainData ==
  /\ Preprocessed(training_data)
  /\ op' = "preprocess_train_data"
  /\ predicted' = << >>
  /\ UNCHANGED << caller_config, component_config, retrieval_intent, model,
                  message, training_data >>
  /\ UNCHANGED << persist_vars, diet_vars >>

\* train: preprocess_train_data, and a model unless the model data is empty
Train ==
  /\ Preprocessed(training_data)
  /\ model' = IF model_data' = EmptyModelData THEN model ELSE "model"
  /\ op' = "train"
  /\ predicted' = << >>
  /\ UNCHANGED << caller_config, component_config, retrieval_intent,
                  message, training_data >>
  /\ UNCHANGED << persist_vars, diet_vars >>

\* ------------------------------------------------------------------ process

\* Python's hash of a label or of a registry key.  Only equality of hashes
\* is ever used; the strings of the universe hash to distinct values.
Hash(s) ==
  CASE s = "faq/a"      -> "#1"
    [] s = "faq/b"      -> "#2"
    [] s = "chitchat/a" -> "#3"
    [] s = "hello"      -> "#4"
    [] s = "bye"        -> "#5"
    [] s = "ciao"       -> "#6"
    [] OTHER            -> "#0"

\* RANKING_LENGTH of the defaults
RANKING_LENGTH == 10

Min(a, b) == IF a < b THEN a ELSE b

\* _predict: None (here << >>) without a model, else the labels' indices in
\* the order of the model's scores, best first: any order may come out
PredictOutputs(mdl, table) ==
  IF mdl = None THEN { << >> }
  ELSE { p \in [DOMAIN table -> DOMAIN table] :
           \A i, j \in DOMAIN table : p[i] = p[j] => i = j }

\* _predict_label, the top label: id None and name None without a prediction
PredictLabel(out, table) ==
  IF out = << >> THEN [id |-> None, name |-> None, confidence |-> 0]
  ELSE [id |-> Hash(table[out[1]]), name |-> table[out[1]], confidence |-> Len(out)]

\* _predict_label, the ranking: the best labels by falling confidence (the
\* confidence of a label is modelled by its rank from the end)
PredictRanking(out, table) ==
  [i \in 1..Min(Len(out), RANKING_LENGTH) |->
     [id |-> Hash(table[out[i]]), name |-> table[out[i]],
      confidence |-> Len(out) + 1 - i, full_retrieval_intent |-> Absent]]

\* whether the entry of key k matches the label id: some response of it by
\* its text when training on text, the key itself otherwise
KeyMatches(resp, train_on_text, k, id) ==
  IF train_on_text
    THEN \E j \in DOMAIN resp[k] : Hash(resp[k][j].text) = id
    ELSE resp[k] # << >> /\ Hash(k) = id

\* the response returned for a matching key: the first one whose text
\* matches, or the first response of the key
MatchOf(resp, train_on_text, k, id) ==
  IF train_on_text
    THEN LET j == CHOOSE j \in DOMAIN resp[k] :
                    /\ Hash(resp[k][j].text) = id
                    /\ \A h \in 1..(j - 1) : Hash(resp[k][h].text) # id
         IN resp[k][j]
    ELSE resp[k][1]

\* _full_response: the first match in the iteration order of self.responses,
\* None (found = FALSE) when the loop ends without one
FullResponse(resp, train_on_text, id) ==
  LET hits == { i \in DOMAIN RegistryOrder :
                  KeyMatches(resp, train_on_text, RegistryOrder[i], id) }
  IN IF hits = {}
       THEN [found |-> FALSE, key |-> None, response |-> NoResponse]
       ELSE LET i == CHOOSE i \in hits : \A h \in hits : i <= h
            IN [found |-> TRUE, key |-> RegistryOrder[i],
                response |-> MatchOf(resp, train_on_text, RegistryOrder[i], id)]

\* retrieval_intent_mapping.get(name): None for a key that is not set
MappingGet(mapping, name) ==
  IF name \in DOMAIN mapping /\ mapping[name] # Absent THEN mapping[name] ELSE None

\* the attached retrieval intent with the two branches exchanged
FullRetrievalIntentSwapped(mapping, train_on_text, name) ==
  IF train_on_text THEN name ELSE MappingGet(mapping, name)

\* lines 386-390: retrieval_intent_mapping.get(name) if TRAIN_ON_TEXT else name
FullRetrievalIntent(mapping, train_on_text, name) ==
  IF train_on_text THEN MappingGet(mapping, name) ELSE name

\* lines 380-390: every entry of the ranking gets its full_retrieval_intent
AnnotatedRanking(ranking, mapping, train_on_text) ==
  [i \in DOMAIN ranking |->
     [ranking[i] EXCEPT
        !.full_retrieval_intent = FullRetrievalIntent(mapping, train_on_text, ranking[i].name)]]

\* lines 392-396
SelectorKey(ri) == IF Truthy(ri) THEN ri ELSE DEFAULT_OPEN_UTTERANCE_TYPE

\* a key of the message's property that is not set
AbsentPrediction ==
  [response |-> NoResponse, ranking |-> << >>, full_retrieval_intent |-> Absent]

\* what another selector has stored on the message
OtherPrediction ==
  [response |-> [text |-> "other", buttons |-> None],
   ranking |-> << [id |-> "#9", name |-> "other", confidence |-> 1,
                   full_retrieval_intent |-> "other/x"] >>,
   full_retrieval_intent |-> "other/x"]

\* message.get(RESPONSE_SELECTOR_PROPERTY_NAME, {}) of a message without one
NoProperties == [k \in SelectorKeys |-> AbsentPrediction]

\* the property replaced by a dictionary with the new entry alone
SetMessagePropertyFresh(msg, prediction_dict, selector_key) ==
  [NoProperties EXCEPT ![selector_key] = prediction_dict]

\* _set_message_property
SetMessageProperty(msg, prediction_dict, selector_key) ==
  [msg EXCEPT ![selector_key] = prediction_dict]

\* lines 402-406
PredictionDict(fr, ranking) ==
  [response |-> fr.response, ranking |-> ranking, full_retrieval_intent |-> fr.key]

\* line 372: label_retrieval_intent, label_responses = self._full_response(label)
\* raises TypeError when _full_response returns None
Unpack(fr) == IF fr.found THEN "none" ELSE "TypeError"

Process ==
  \E out \in PredictOutputs(model, index_label_id_mapping) :
    LET tot == TrainOnText(component_config)
        label == PredictLabel(out, index_label_id_mapping)
        label_ranking == PredictRanking(out, index_label_id_mapping)
        fr == FullResponse(responses, tot, label.id)
    IN /\ op' = "process"
       /\ predicted' = out
       /\ raised' = Unpack(fr)
       /\ message' =
            IF raised' = "none"
              THEN SetMessageProperty(
                     message,
                     PredictionDict(fr, AnnotatedRanking(label_ranking,
                                                         retrieval_intent_mapping, tot)),
                     SelectorKey(retrieval_intent))
              ELSE message
       /\ model_data' = EmptyModelData
       /\ UNCHANGED << caller_config, component_config, retrieval_intent,
                       index_label_id_mapping, label_data, retrieval_intent_mapping,
                       responses, model, training_data >>
       /\ UNCHANGED << persist_vars, diet_vars >>

\* the messages that reach process: without the property, or with entries
\* other selectors of the pipeline have stored
Messages ==
  { [k \in SelectorKeys |-> IF k \in ks THEN OtherPrediction ELSE AbsentPrediction] :
      ks \in { {}, {"faq"}, {DEFAULT_OPEN_UTTERANCE_TYPE, "chitchat"}, SelectorKeys } }

NewMessage ==
  /\ message' \in Messages
  /\ op' = "new_message"
  /\ raised' = "none"
  /\ model_data' = EmptyModelData
  /\ predicted' = << >>
  /\ UNCHANGED << caller_config, component_config, retrieval_intent,
                  index_label_id_mapping, label_data, retrieval_intent_mapping,
                  responses, model, training_data >>
  /\ UNCHANGED << persist_vars, diet_vars >>

\* ---------------------------------------------------------------- DIET2DIET

TEXT_SEQUENCE_FEATURES == "text_sequence_features"
TEXT_SENTENCE_FEATURES == "text_sentence_features"
LABEL_SEQUENCE_FEATURES == "label_sequence_features"
LABEL_SENTENCE_FEATURES == "label_sentence_features"

FeatureKeys ==
  {TEXT_SEQUENCE_FEATURES, TEXT_SENTENCE_FEATURES,
   LABEL_SEQUENCE_FEATURES, LABEL_SENTENCE_FEATURES}

\* the signature of a feature: Absent when the key is not in the data
\* signature, else its shape
Shapes == {"shape_a", "shape_b"}

DataSignatures == [FeatureKeys -> Shapes \cup {Absent}]

DietConfigs == [share_hidden_layers : BOOLEAN, masked_lm : BOOLEAN]

\* _check_data: the exception it raises, "none" when it returns
CheckData(sig, cfg) ==
  IF sig[TEXT_SENTENCE_FEATURES] = Absent THEN "InvalidConfigError"
  ELSE IF sig[LABEL_SENTENCE_FEATURES] = Absent THEN "InvalidConfigError"
  ELSE IF cfg.share_hidden_layers
          /\ sig[TEXT_SENTENCE_FEATURES] # sig[LABEL_SENTENCE_FEATURES]
    THEN "ValueError"
  ELSE "none"

\* metrics_to_log after appends that do not look at MASKED_LM
UpdateMetricsToLogMaskAlways(metrics, cfg, debug) ==
  LET m1 == Append(metrics, "m_acc")
      m2 == IF debug THEN Append(m1, "m_loss") ELSE m1
      m3 == Append(m2, "r_acc")
  IN IF debug THEN Append(m3, "r_loss") ELSE m3

\* _update_metrics_to_log: metrics_to_log after the appends
UpdateMetricsToLog(metrics, cfg, debug) ==
  LET m1 == IF cfg.masked_lm THEN Append(metrics, "m_acc") ELSE metrics
      m2 == IF cfg.masked_lm /\ debug THEN Append(m1, "m_loss") ELSE m1
      m3 == Append(m2, "r_acc")
  IN IF debug THEN Append(m3, "r_loss") ELSE m3

\* _prepare_layers: the layers prepared; the label tower takes the text
\* tower's name when the hidden layers are shared
PrepareLayers(cfg) ==
  {"sequence.text", "label_classification"}
    \cup (IF cfg.share_hidden_layers THEN {} ELSE {"sequence.label"})
    \cup (IF cfg.masked_lm THEN {"mask_lm.text"} ELSE {})

\* The construction of the model: the data is checked, then the metrics are
\* set up and the layers prepared; an exception of _check_data ends it.
DietConstruct ==
  /\ diet_state = "new"
  /\ LET e == CheckData(data_signature, config)
     IN IF e # "none"
          THEN /\ diet_state' = e
               /\ UNCHANGED << metrics_to_log, layers >>
          ELSE /\ diet_state' = "built"
               /\ metrics_to_log' = UpdateMetricsToLog(metrics_to_log, config, debug_log_level)
               /\ layers' = PrepareLayers(config)
  /\ UNCHANGED << data_signature, config, debug_log_level >>
  /\ UNCHANGED << all_labels_embed, create_all_labels_calls, predict_calls,
                  loss_calls, metric_updates, losses >>
  /\ UNCHANGED << selector_vars, persist_vars >>

\* _create_metrics: the four metrics, none updated yet
MetricNames == {"m_loss", "r_loss", "m_acc", "r_acc"}

CreateMetrics == [m \in MetricNames |-> 0]

\* all_labels_embed of a model that has not predicted: None
NoLabelsEmbed == [is_none |-> TRUE, created_by_call |-> 0]

\* the embeddings _create_all_labels returns, marked with the call that made them
CreateAllLabels(call) == [is_none |-> FALSE, created_by_call |-> call]

\* a batch_predict that does not look at the cache
CacheIsNoneAlways(cache) == TRUE

\* if self.all_labels_embed is None
CacheIsNone(cache) == cache.is_none

\* batch_predict: the label embeddings are created when the cache is None,
\* and the scores are computed against the cache
BatchPredict ==
  /\ diet_state = "built"
  /\ predict_calls < MaxBatches
  /\ predict_calls' = predict_calls + 1
  /\ IF CacheIsNone(all_labels_embed)
       THEN /\ create_all_labels_calls' = create_all_labels_calls + 1
            /\ all_labels_embed' = CreateAllLabels(create_all_labels_calls + 1)
       ELSE UNCHANGED << all_labels_embed, create_all_labels_calls >>
  /\ UNCHANGED << data_signature, config, debug_log_level, metrics_to_log,
                  layers, diet_state, loss_calls, metric_updates, losses >>
  /\ UNCHANGED << selector_vars, persist_vars >>

\* the metrics batch_loss calls update_state on
UpdatedMetrics(cfg) ==
  (IF cfg.masked_lm THEN {"m_loss", "m_acc"} ELSE {}) \cup {"r_loss", "r_acc"}

\* the loss terms batch_loss appends to losses, in order
LossTerms(cfg) ==
  (IF cfg.masked_lm THEN << "mask" >> ELSE << >>) \o << "response" >>

\* batch_loss: the mask loss when MASKED_LM is set, then the response loss;
\* the metrics of each are updated and the losses added up
BatchLoss ==
  /\ diet_state = "built"
  /\ loss_calls < MaxBatches
  /\ loss_calls' = loss_calls + 1
  /\ metric_updates' =
       [m \in MetricNames |->
          IF m \in UpdatedMetrics(config) THEN metric_updates[m] + 1 ELSE metric_updates[m]]
  /\ losses' = LossTerms(config)
  /\ UNCHANGED << data_signature, config, debug_log_level, metrics_to_log,
                  layers, diet_state, all_labels_embed, create_all_labels_calls,
                  predict_calls >>
  /\ UNCHANGED << selector_vars, persist_vars >>

\* ----------------------------------------------------------- specifications

\* what the selector is constructed from: nothing, or what a selector
\* trained on these examples has persisted (with or without its responses)
PriorExamples ==
  << [intent |-> "faq", intent_response_key |-> "faq/a", response |-> "hello"],
     [intent |-> "chitchat", intent_response_key |-> "chitchat/a", response |-> "hello"] >>

PriorResponses == Registry({"faq/a", "chitchat/a"})

ConstructedFrom(cc, origin, td) ==
  LET cfg == EffectiveConfig(cc)
      ri == LoadSelectorParams(cfg)
      prior == FilterExamples(PriorExamples, ri)
      m == LabelIdIndexMapping(prior, TrainOnText(cfg))
  IN /\ caller_config = cc
     /\ component_config = cfg
     /\ retrieval_intent = ri
     /\ index_label_id_mapping = IF origin = "fresh" THEN << >> ELSE InvertMapping(m)
     /\ label_data = << >>
     /\ retrieval_intent_mapping =
          IF origin = "fresh" THEN EmptyMapping ELSE CreateRetrievalIntentMapping(prior)
     /\ responses = IF origin = "loaded" THEN PriorResponses ELSE EmptyResponses
     /\ model = IF origin = "fresh" THEN None ELSE "model"
     /\ message = NoProperties
     /\ training_data = td
     /\ model_data = EmptyModelData
     /\ predicted = << >>
     /\ op = "init"
     /\ raised = "none"

\* ------------------------------------------------------------ persist, load

\* the file name persist is called with
FILE_NAME == "component_1_ResponseSelector"

\* a file of the model directory: whether it is there, and what it holds
NoFile == [exists |-> FALSE, content |-> {}]

\* io_utils.json_pickle of a dictionary: the JSON object of its items
JsonPickle(mapping) ==
  { << k, mapping[k] >> : k \in { r \in DOMAIN mapping : mapping[r] # Absent } }

\* io_utils.json_unpickle: the dictionary of the items of the JSON object
JsonUnpickle(content) ==
  [r \in ResponseIds |->
     IF \E item \in content : item[1] = r
       THEN (CHOOSE item \in content : item[1] = r)[2]
       ELSE Absent]

\* a model directory nothing was persisted into
EmptyDir ==
  [retrieval_intent_mapping_pkl |-> NoFile,
   index_label_id_mapping |-> << >>,
   model |-> None]

\* a model directory that still holds the mapping file of an earlier model
StaleDir ==
  [EmptyDir EXCEPT
     !.retrieval_intent_mapping_pkl =
        [exists |-> TRUE,
         content |-> JsonPickle(CreateRetrievalIntentMapping(PriorExamples))]]

\* no metadata yet: no "file", no "responses"
NoMeta == [file |-> None, has_responses |-> FALSE, responses |-> EmptyResponses]

\* the metadata of a trained selector, its responses left out
PersistedMetaWithoutResponses(file_name, resp) ==
  [file |-> file_name, has_responses |-> FALSE, responses |-> EmptyResponses]

\* {"file": file_name, "responses": self.responses}
PersistedMeta(file_name, resp) ==
  [file |-> file_name, has_responses |-> TRUE, responses |-> resp]

\* meta.get("responses", {})
MetaResponses(m) == IF m.has_responses THEN m.responses ELSE EmptyResponses

\* persist: nothing is written without a model; else the parent persists the
\* model and the label table, and the mapping is pickled beside them
Persist ==
  /\ IF model = None
       THEN /\ meta' = NoMeta
            /\ model_dir' = model_dir
       ELSE /\ model_dir' =
                 [retrieval_intent_mapping_pkl |->
                    [exists |-> TRUE, content |-> JsonPickle(retrieval_intent_mapping)],
                  index_label_id_mapping |-> index_label_id_mapping,
                  model |-> model]
            /\ meta' = PersistedMeta(FILE_NAME, responses)
  /\ op' = "persist"
  /\ raised' = "none"
  /\ model_data' = EmptyModelData
  /\ predicted' = << >>
  /\ UNCHANGED << caller_config, component_config, retrieval_intent,
                  index_label_id_mapping, label_data, retrieval_intent_mapping,
                  responses, model, message, training_data >>
  /\ UNCHANGED diet_vars

\* load: the parent builds the component from the metadata (with the model
\* and the label table of the directory when the metadata names a file);
\* then the mapping is unpickled and the responses are taken from the
\* metadata.  The component loaded takes the place of the one in memory.
Load ==
  /\ IF ~Truthy(meta.file)
       THEN /\ index_label_id_mapping' = << >>
            /\ model' = None
            /\ retrieval_intent_mapping' = EmptyMapping
            /\ responses' = EmptyResponses
            /\ label_data' = << >>
            /\ raised' = "none"
       ELSE IF ~model_dir.retrieval_intent_mapping_pkl.exists
         THEN /\ raised' = "FileNotFoundError"
              /\ UNCHANGED << index_label_id_mapping, model, label_data,
                              retrieval_intent_mapping, responses >>
         ELSE /\ index_label_id_mapping' = model_dir.index_label_id_mapping
              /\ model' = model_dir.model
              /\ retrieval_intent_mapping' =
                   JsonUnpickle(model_dir.retrieval_intent_mapping_pkl.content)
              /\ responses' = MetaResponses(meta)
              /\ label_data' = << >>
              /\ raised' = "none"
  /\ op' = "load"
  /\ model_data' = EmptyModelData
  /\ predicted' = << >>
  /\ UNCHANGED << caller_config, component_config, retrieval_intent,
                  message, training_data >>
  /\ UNCHANGED << persist_vars, diet_vars >>

DietIdle ==
  /\ data_signature = [k \in FeatureKeys |-> Absent]
  /\ config = [share_hidden_layers |-> FALSE, masked_lm |-> FALSE]
  /\ debug_log_level = FALSE
  /\ metrics_to_log = << >>
  /\ layers = {}
  /\ diet_state = "new"
  /\ all_labels_embed = NoLabelsEmbed
  /\ create_all_labels_calls = 0
  /\ predict_calls = 0
  /\ loss_calls = 0
  /\ metric_updates = CreateMetrics
  /\ losses = << >>

Init ==
  /\ \E cc \in CallerConfigs, td \in TrainingData,
        origin \in {"fresh", "loaded", "loaded_without_responses"} :
       ConstructedFrom(cc, origin, td)
  /\ meta = NoMeta
  /\ model_dir = EmptyDir
  /\ DietIdle

Next == PreprocessTrainData \/ Train \/ Process \/ NewMessage

Spec == Init /\ [][Next]_vars

\* The selector with its persistence: the model directory may hold the
\* mapping file of an earlier model.
InitPersist ==
  /\ \E cc \in CallerConfigs, td \in TrainingData,
        origin \in {"fresh", "loaded", "loaded_without_responses"} :
       ConstructedFrom(cc, origin, td)
  /\ meta = NoMeta
  /\ model_dir \in {EmptyDir, StaleDir}
  /\ DietIdle

NextPersist == Train \/ Persist \/ Load

SpecPersist == InitPersist /\ [][NextPersist]_vars

InitDiet ==
  /\ ConstructedFrom(NoConfig, "fresh", [examples |-> << >>, responses |-> EmptyResponses])
  /\ meta = NoMeta
  /\ model_dir = EmptyDir
  /\ data_signature \in DataSignatures
  /\ config \in DietConfigs
  /\ debug_log_level \in BOOLEAN
  /\ metrics_to_log = << >>
  /\ layers = {}
  /\ diet_state = "new"
  /\ all_labels_embed = NoLabelsEmbed
  /\ create_all_labels_calls = 0
  /\ predict_calls = 0
  /\ loss_calls = 0
  /\ metric_updates = CreateMetrics
  /\ losses = << >>

NextDiet == DietConstruct \/ BatchPredict \/ BatchLoss

SpecDiet == InitDiet /\ [][NextDiet]_vars

\* ------------------------------------------------------------------- claims

\* the ranking process has stored on the message under the selector's key
StoredPrediction == message[SelectorKey(retrieval_intent)]

\* the registry entries that match a label id by the criterion of
\* _full_response: (key, position) of a response when training on text,
\* (key, 1) otherwise
MatchingEntries(resp, train_on_text, id) ==
  IF train_on_text
    THEN UNION { { << k, j >> : j \in { h \in DOMAIN resp[k] : Hash(resp[k][h].text) = id } } :
                   k \in RegistryKeys }
    ELSE { << k, 1 >> : k \in { h \in RegistryKeys : resp[h] # << >> /\ Hash(h) = id } }

\* C1: when process() predicts a label that has no matching entry in the
\* response registry, it does not raise: the prediction is on the message
\* with its ranking, and the response payload is empty.
C1_UnresolvedResponseIsNotFatal ==
  ( /\ op = "process"
    /\ predicted # << >>
    /\ MatchingEntries(responses, TrainOnText(component_config),
                       Hash(index_label_id_mapping[predicted[1]])) = {} )
  => /\ raised = "none"
     /\ StoredPrediction.response = NoResponse
     /\ Len(StoredPrediction.ranking) = Len(predicted)
     /\ \A i \in DOMAIN StoredPrediction.ranking :
          StoredPrediction.ranking[i].name = index_label_id_mapping[predicted[i]]

\* C2: process() on a selector that was trained with zero labels, and so
\* has no model, completes without raising and leaves the message as it was.
C2_ProcessWithoutModelLeavesMessage ==
  [][ (op = "train" /\ model = None /\ op' = "process")
        => (raised' = "none" /\ message' = message) ]_vars

\* C3, as claimed: when the selector is not training on text, every entry
\* of the ranking gets the value the retrieval intent mapping holds for its
\* name.
C3_MappingUsedWhenNotTrainingOnText ==
  (op = "process" /\ raised = "none" /\ ~TrainOnText(component_config))
  => \A i \in DOMAIN StoredPrediction.ranking :
       StoredPrediction.ranking[i].full_retrieval_intent =
         (LET n == StoredPrediction.ranking[i].name
          IN IF n \in ResponseIds /\ retrieval_intent_mapping[n] # Absent
               THEN retrieval_intent_mapping[n] ELSE None)

\* C3, amended: every entry of the ranking gets the value the retrieval
\* intent mapping holds for its name (None if it holds none) when the
\* selector is training on text, and its own name when it is not.
C3_MappingUsedWhenTrainingOnText ==
  (op = "process" /\ raised = "none")
  => \A i \in DOMAIN StoredPrediction.ranking :
       LET n == StoredPrediction.ranking[i].name
       IN StoredPrediction.ranking[i].full_retrieval_intent =
            IF component_config.train_on_text = "True"
              THEN IF n \in ResponseIds /\ retrieval_intent_mapping[n] # Absent
                     THEN retrieval_intent_mapping[n] ELSE None
              ELSE n

\* a ranking entry named by a response text carries the intent response key
\* the mapping holds for it
C3_Witness ==
  /\ op = "process" /\ raised = "none"
  /\ component_config.train_on_text = "True"
  /\ StoredPrediction.ranking # << >>
  /\ StoredPrediction.ranking[1].name = "hello"
  /\ StoredPrediction.ranking[1].full_retrieval_intent = "chitchat/a"

\* C4: with shared hidden layers and text and label signatures that differ
\* in their sequence features or in their sentence features, construction
\* fails in _check_data, before metrics are set up or layers prepared.
C4_SharedLayersMismatchFailsConstruction ==
  ( /\ diet_state # "new"
    /\ config.share_hidden_layers
    /\ \/ data_signature[TEXT_SEQUENCE_FEATURES] # data_signature[LABEL_SEQUENCE_FEATURES]
       \/ data_signature[TEXT_SENTENCE_FEATURES] # data_signature[LABEL_SENTENCE_FEATURES] )
  => /\ diet_state \in {"InvalidConfigError", "ValueError"}
     /\ layers = {}
     /\ metrics_to_log = << >>

\* C5: _check_data raises InvalidConfigError exactly when the text attribute
\* or the label attribute has neither sequence nor sentence features.
C5_MissingFeaturesIffNeitherKind ==
  diet_state # "new"
  => ( diet_state = "InvalidConfigError"
       <=> \/ /\ data_signature[TEXT_SEQUENCE_FEATURES] = Absent
              /\ data_signature[TEXT_SENTENCE_FEATURES] = Absent
           \/ /\ data_signature[LABEL_SEQUENCE_FEATURES] = Absent
              /\ data_signature[LABEL_SENTENCE_FEATURES] = Absent )

\* C6: after preprocess_train_data every label of the label table resolves,
\* by its hash, to exactly one entry of the response registry.
C6_EveryLabelResolvesToOneEntry ==
  (op \in {"preprocess_train_data", "train"} /\ model_data # EmptyModelData)
  => \A i \in DOMAIN index_label_id_mapping :
       Cardinality(MatchingEntries(responses, TrainOnText(component_config),
                                   Hash(index_label_id_mapping[i]))) = 1

\* the examples of the training data that pass the selector's filter: all of
\* them without a retrieval intent, those of the retrieval intent with one
Retained ==
  { i \in DOMAIN training_data.examples :
      \/ retrieval_intent \in {None, ""}
      \/ training_data.examples[i].intent = retrieval_intent }

\* the label of example i under the selector's configuration
ExampleLabel(i) ==
  IF component_config.train_on_text = "True"
    THEN training_data.examples[i].response
    ELSE training_data.examples[i].intent_response_key

\* no retained example of the training data has a label
NoLabels == \A i \in Retained : ExampleLabel(i) = None

\* C7: on a training set without labels preprocess_train_data does not
\* raise, returns empty model data, and assigns neither the label table nor
\* the label data.
C7_NoLabelsReturnsEmptyModelData ==
  [][ (op' \in {"preprocess_train_data", "train"} /\ NoLabels)
        => /\ raised' = "none"
           /\ model_data' = EmptyModelData
           /\ index_label_id_mapping' = index_label_id_mapping
           /\ label_data' = label_data ]_vars

\* preprocess_train_data has run on a training set without labels and the
\* selector still holds the label table it had before
C7_Witness ==
  /\ op = "preprocess_train_data"
  /\ NoLabels
  /\ training_data.examples # << >>
  /\ model_data = EmptyModelData
  /\ index_label_id_mapping # << >>

\* C8: the retrieval intent mapping, the label table and the model data
\* come from the examples of the configured retrieval intent alone, and
\* from every example when none is configured.
C8_OnlyRetainedExamplesContribute ==
  op \in {"preprocess_train_data", "train"}
  => LET exs == training_data.examples
     IN /\ { r \in ResponseIds : retrieval_intent_mapping[r] # Absent }
             = { exs[i].response : i \in Retained }
        /\ \A r \in ResponseIds :
             retrieval_intent_mapping[r] # Absent
             => \E i \in Retained : /\ exs[i].response = r
                                    /\ exs[i].intent_response_key = retrieval_intent_mapping[r]
        /\ ~NoLabels
           => { index_label_id_mapping[j] : j \in DOMAIN index_label_id_mapping }
                = { ExampleLabel(i) : i \in Retained } \ {None}
        /\ Len(model_data) = Cardinality({ i \in Retained : ExampleLabel(i) # None })
        /\ \A j \in DOMAIN model_data :
             \E i \in Retained : /\ model_data[j].example = exs[i]
                                 /\ index_label_id_mapping[model_data[j].label_id]
                                      = ExampleLabel(i)

\* a retrieval intent is configured, and the training set has an example of
\* it, which is in the model data, and an example of another intent
C8_Witness ==
  /\ op = "preprocess_train_data"
  /\ retrieval_intent = "faq"
  /\ Len(model_data) = 1
  /\ \E i \in DOMAIN training_data.examples : training_data.examples[i].intent = "chitchat"

\* C9: a process() call that completes stores its prediction under the
\* retrieval intent, or under the default key when none is configured, and
\* leaves the entries under every other key as they were.
C9_OnlyTheSelectorsEntryChanges ==
  [][ (op' = "process" /\ raised' = "none")
        => LET key == IF retrieval_intent \in {None, ""}
                        THEN DEFAULT_OPEN_UTTERANCE_TYPE ELSE retrieval_intent
           IN /\ \A k \in SelectorKeys \ {key} : message'[k] = message[k]
              /\ message'[key] # AbsentPrediction
              /\ Len(message'[key].ranking) = Len(predicted')
              /\ \A i \in DOMAIN predicted' :
                   message'[key].ranking[i].name = index_label_id_mapping[predicted'[i]]
              /\ message'[key].full_retrieval_intent \in RegistryKeys
              /\ message'[key].response
                   \in { responses[message'[key].full_retrieval_intent][j] :
                           j \in DOMAIN responses[message'[key].full_retrieval_intent] } ]_vars

\* process() has stored its prediction over an earlier entry of its key on
\* a message that carries another selector's entry under another key
C9_Witness ==
  /\ op = "process" /\ raised = "none"
  /\ retrieval_intent = "faq"
  /\ message["faq"] \notin {AbsentPrediction, OtherPrediction}
  /\ message[DEFAULT_OPEN_UTTERANCE_TYPE] = OtherPrediction
  /\ message["chitchat"] = OtherPrediction

\* C10: whatever configuration the caller gives, the selector's
\* configuration has intent classification on, entity recognition off and
\* no BILOU flag.
C10_ReservedOptionsAreForced ==
  /\ component_config.intent_classification = "True"
  /\ component_config.entity_recognition = "False"
  /\ component_config.bilou_flag = None

\* the caller has set the three options to other values
C10_Witness ==
  /\ caller_config.given
  /\ caller_config.intent_classification = "False"
  /\ caller_config.entity_recognition = "True"
  /\ caller_config.bilou_flag = "True"
  /\ component_config.entity_recognition = "False"

\* C13: the keys of the retrieval intent mapping are the responses of the
\* training examples it is made from, and the value of a response is the
\* intent response key of the last example that carries it.
C13_LastExampleOfAResponseWins ==
  op \in {"preprocess_train_data", "train"}
  => \A r \in ResponseIds :
       LET carriers == { i \in Retained : training_data.examples[i].response = r }
       IN IF carriers = {}
            THEN retrieval_intent_mapping[r] = Absent
            ELSE LET last == CHOOSE i \in carriers : \A h \in carriers : h <= i
                 IN retrieval_intent_mapping[r]
                      = training_data.examples[last].intent_response_key

\* two examples carry the response "hello" under different intent response
\* keys, and the mapping holds the key of the later one
C13_Witness ==
  /\ op = "preprocess_train_data"
  /\ Len(training_data.examples) = 2
  /\ Retained = {1, 2}
  /\ training_data.examples[1].intent_response_key = "faq/a"
  /\ training_data.examples[2].intent_response_key = "chitchat/a"
  /\ retrieval_intent_mapping["hello"] = "chitchat/a"

\* the response and the retrieval intent a label resolves to, given the
\* registry and the mapping of a component
Resolution(resp, mapping, label) ==
  [response |-> FullResponse(resp, TrainOnText(component_config), Hash(label)),
   retrieval_intent |-> FullRetrievalIntent(mapping, TrainOnText(component_config), label)]

C12_LabelEmbeddingsAreCachedOnce ==
  [][ predict_calls' # predict_calls
      => IF predict_calls = 0
           THEN /\ all_labels_embed.is_none
                /\ create_all_labels_calls = 0
                /\ create_all_labels_calls' = 1
                /\ ~all_labels_embed'.is_none
           ELSE /\ create_all_labels_calls' = 1
                /\ create_all_labels_calls' = create_all_labels_calls
                /\ all_labels_embed' = all_labels_embed
    ]_vars

\* batch_predict has been called up to the bound, and the embeddings are
\* those of the one call of _create_all_labels
C12_Witness ==
  /\ predict_calls = MaxBatches
  /\ create_all_labels_calls = 1
  /\ all_labels_embed = CreateAllLabels(1)

\* C14: with MASKED_LM off, m_loss and m_acc are not in metrics_to_log
\* whatever the log level, batch_loss never updates them and adds no mask
\* loss to the total; r_acc is in metrics_to_log of every model built.
C14_NoMaskMetricsWithoutMaskedLM ==
  /\ ~config.masked_lm
       => /\ "m_loss" \notin Range(metrics_to_log)
          /\ "m_acc" \notin Range(metrics_to_log)
          /\ metric_updates["m_loss"] = 0
          /\ metric_updates["m_acc"] = 0
          /\ "mask" \notin Range(losses)
  /\ diet_state = "built" => "r_acc" \in Range(metrics_to_log)

\* a model built with MASKED_LM off at DEBUG level has computed batch losses
C14_Witness ==
  /\ ~config.masked_lm
  /\ debug_log_level
  /\ diet_state = "built"
  /\ loss_calls = 2
  /\ metric_updates["r_acc"] = 2
  /\ losses = << "response" >>
  /\ metrics_to_log = << "r_acc", "r_loss" >>

====
